---------------------------- MODULE Spec2Model ----------------------------
(***************************************************************************)
(* A model of ddclient-rs, the Direct Decisions API client: the request    *)
(* dispatcher (Client::request), the shared rate state behind its mutex,   *)
(* the rate-limit header parser (Rate::from_headers) and the response      *)
(* interpreter (handle_api_response) with its error taxonomy.              *)
(*                                                                         *)
(* Text is modelled as a sequence of one-character strings wherever the    *)
(* code inspects it character by character (the error strings of a 400     *)
(* body, which the code re-quotes and parses as JSON).  HTTP transport and *)
(* the JSON decoding of whole bodies belong to reqwest and serde: a        *)
(* response carries its body text and, beside it, the JSON value that text *)
(* denotes.                                                                *)
(***************************************************************************)
EXTENDS Integers, Sequences, FiniteSets, TLC

(***************************************************************************)
(* Bounds of the model.                                                    *)
(***************************************************************************)
\* The largest u32 and the largest u64, scaled down: a header value parses
\* as u32 iff it is at most MaxU32 and as u64 iff it is at most MaxU64.
MaxU32 == 2
MaxU64 == 3
\* The system clock, in seconds since the epoch, runs from 1 to MaxNow.
MaxNow == 2
\* The longest errors list of a 400 body drawn freely from CoreErrorStrings.
MaxErrors == 2
\* Tasks that may use the one client concurrently.
NumTasks == 2

(***************************************************************************)
(* errors.rs: BadRequestError.  serde's derived Deserialize names each     *)
(* variant by its Rust identifier; thiserror's #[error] attribute gives    *)
(* the Display text.                                                       *)
(***************************************************************************)
BadRequestErrors ==
    { "InvalidData", "MissingChoices", "ChoiceTooLong", "TooManyChoices",
      "ChoiceRequired", "BallotRequired", "VoterIDTooLong", "InvalidVoterID" }

BadRequestErrorIdent ==
    [ InvalidData |->
        <<"I", "n", "v", "a", "l", "i", "d", "D", "a", "t", "a">>
    , MissingChoices |->
        <<"M", "i", "s", "s", "i", "n", "g", "C", "h", "o", "i", "c", "e", "s">>
    , ChoiceTooLong |->
        <<"C", "h", "o", "i", "c", "e", "T", "o", "o", "L", "o", "n", "g">>
    , TooManyChoices |->
        <<"T", "o", "o", "M", "a", "n", "y", "C", "h", "o", "i", "c", "e", "s">>
    , ChoiceRequired |->
        <<"C", "h", "o", "i", "c", "e", "R", "e", "q", "u", "i", "r", "e", "d">>
    , BallotRequired |->
        <<"B", "a", "l", "l", "o", "t", "R", "e", "q", "u", "i", "r", "e", "d">>
    , VoterIDTooLong |->
        <<"V", "o", "t", "e", "r", "I", "D", "T", "o", "o", "L", "o", "n", "g">>
    , InvalidVoterID |->
        <<"I", "n", "v", "a", "l", "i", "d", "V", "o", "t", "e", "r", "I", "D">> ]

BadRequestErrorDisplay ==
    [ InvalidData |->
        <<"I", "n", "v", "a", "l", "i", "d", " ", "d", "a", "t", "a">>
    , MissingChoices |->
        <<"M", "i", "s", "s", "i", "n", "g", " ", "c", "h", "o", "i", "c", "e", "s">>
    , ChoiceTooLong |->
        <<"C", "h", "o", "i", "c", "e", " ", "t", "o", "o", " ", "l", "o", "n", "g">>
    , TooManyChoices |->
        <<"T", "o", "o", " ", "m", "a", "n", "y", " ", "c", "h", "o", "i", "c", "e", "s">>
    , ChoiceRequired |->
        <<"C", "h", "o", "i", "c", "e", " ", "r", "e", "q", "u", "i", "r", "e", "d">>
    , BallotRequired |->
        <<"B", "a", "l", "l", "o", "t", " ", "r", "e", "q", "u", "i", "r", "e", "d">>
    , VoterIDTooLong |->
        <<"V", "o", "t", "e", "r", " ", "I", "D", " ", "t", "o", "o", " ", "l", "o", "n", "g">>
    , InvalidVoterID |->
        <<"I", "n", "v", "a", "l", "i", "d", " ", "v", "o", "t", "e", "r", " ", "I", "D">> ]

(***************************************************************************)
(* Sample error strings a server may send, beside the identifiers and the  *)
(* display texts above.                                                    *)
(***************************************************************************)
StrEscapedIdent ==
    <<"I", "n", "v", "a", "l", "i", "d", "\\", "u", "0", "0", "4", "4", "a", "t", "a">>

StrQuoteInside ==
    <<"I", "n", "v", "a", "l", "i", "d", "\"", "D", "a", "t", "a">>

StrTrailingQuote ==
    <<"I", "n", "v", "a", "l", "i", "d", "D", "a", "t", "a", "\"">>

StrBackslash ==
    <<"I", "n", "v", "a", "l", "i", "d", "D", "a", "t", "a", "\\">>

StrBadEscape ==
    <<"I", "n", "v", "a", "l", "i", "d", "\\", "D", "a", "t", "a">>

StrLowercase ==
    <<"i", "n", "v", "a", "l", "i", "d", "d", "a", "t", "a">>

StrUnknown ==
    <<"Q", "u", "o", "r", "u", "m", " ", "n", "o", "t", " ", "m", "e", "t">>

StrPadded ==
    <<" ", "I", "n", "v", "a", "l", "i", "d", "D", "a", "t", "a">>

StrSolidus ==
    <<"I", "n", "v", "a", "l", "i", "d", "\\", "/", "D", "a", "t", "a">>

StrEmpty == << >>

(***************************************************************************)
(* serde_json::from_str::<BadRequestError>(&format!("\"{}\"", err)): the   *)
(* string is put between two quotes and the result is parsed as one JSON   *)
(* string naming a variant.                                                *)
(***************************************************************************)
Ascii ==
    <<" ", "!", "\"", "#", "$", "%", "&", "'", "(", ")", "*", "+", ",", "-", ".", "/", "0", "1", "2", "3", "4", "5", "6", "7", "8", "9", ":", ";", "<", "=", ">", "?">>
    \o <<"@", "A", "B", "C", "D", "E", "F", "G", "H", "I", "J", "K", "L", "M", "N", "O", "P", "Q", "R", "S", "T", "U", "V", "W", "X", "Y", "Z", "[", "\\", "]", "^", "_">>
    \o <<"<grave>", "a", "b", "c", "d", "e", "f", "g", "h", "i", "j", "k", "l", "m", "n", "o", "p", "q", "r", "s", "t", "u", "v", "w", "x", "y", "z", "{", "|", "}", "~">>

HexDigits ==
    <<"0", "1", "2", "3", "4", "5", "6", "7", "8", "9",
      "a", "b", "c", "d", "e", "f", "A", "B", "C", "D", "E", "F">>

IsHex(c) == \E i \in 1..Len(HexDigits) : HexDigits[i] = c

HexVal(c) ==
    LET i == CHOOSE k \in 1..Len(HexDigits) : HexDigits[k] = c
    IN  IF i <= 16 THEN i - 1 ELSE i - 7

\* JSON whitespace, and the raw control characters a JSON string may not hold.
JsonWhitespace == { " ", "\t", "\n", "\r" }
ControlChars == { "\t", "\n", "\r", "\f" }

\* The character of a \uXXXX escape; everything outside printable ASCII is
\* one opaque character, which no variant identifier contains.
CodeChar(n) == IF n \in 32..126 THEN Ascii[n - 31] ELSE "<non-ascii>"

IsSurrogate(n) == n \in 55296..57343

SimpleEscape(c) ==
    CASE c = "\"" -> "\""
      [] c = "\\" -> "\\"
      [] c = "/"  -> "/"
      [] c = "b"  -> "<backspace>"
      [] c = "f"  -> "\f"
      [] c = "n"  -> "\n"
      [] c = "r"  -> "\r"
      [] c = "t"  -> "\t"

SimpleEscapes == { "\"", "\\", "/", "b", "f", "n", "r", "t" }

ParseErr == [ok |-> FALSE, val |-> << >>]
ParseOk(v) == [ok |-> TRUE, val |-> v]

\* format!("\"{}\"", err)
Quote(err) == <<"\"">> \o err \o <<"\"">>

\* The body of a JSON string literal from position i of s on (the opening
\* quote is at i - 1), then Deserializer::end: only whitespace may follow
\* the closing quote.  A surrogate escape is taken as an error (pairs of
\* surrogates are not modelled; neither outcome names a variant).
RECURSIVE ParseStringBody(_, _, _)
ParseStringBody(s, i, acc) ==
    IF i > Len(s) THEN ParseErr
    ELSE IF s[i] = "\"" THEN
        IF \A j \in (i + 1)..Len(s) : s[j] \in JsonWhitespace
        THEN ParseOk(acc) ELSE ParseErr
    ELSE IF s[i] = "\\" THEN
        IF i + 1 > Len(s) THEN ParseErr
        ELSE IF s[i + 1] \in SimpleEscapes
        THEN ParseStringBody(s, i + 2, Append(acc, SimpleEscape(s[i + 1])))
        ELSE IF s[i + 1] = "u" THEN
            IF i + 5 > Len(s) \/ \E k \in 2..5 : ~IsHex(s[i + k]) THEN ParseErr
            ELSE LET n == 4096 * HexVal(s[i + 2]) + 256 * HexVal(s[i + 3])
                          + 16 * HexVal(s[i + 4]) + HexVal(s[i + 5])
                 IN  IF IsSurrogate(n) THEN ParseErr
                     ELSE ParseStringBody(s, i + 6, Append(acc, CodeChar(n)))
        ELSE ParseErr
    ELSE IF s[i] \in ControlChars THEN ParseErr
    ELSE ParseStringBody(s, i + 1, Append(acc, s[i]))

\* Leading whitespace is skipped, then a string literal must start.
RECURSIVE ParseJsonString(_, _)
ParseJsonString(s, i) ==
    IF i > Len(s) THEN ParseErr
    ELSE IF s[i] \in JsonWhitespace THEN ParseJsonString(s, i + 1)
    ELSE IF s[i] = "\"" THEN ParseStringBody(s, i + 1, << >>)
    ELSE ParseErr

\* Option<BadRequestError>: the variant whose identifier the quoted string
\* denotes, if any (.ok() turns every failure into None).
NoCode == "<none>"

\* As if the variants were named by their display texts.
DeserializeBadRequestErrorByDisplay(err) ==
    LET p == ParseJsonString(Quote(err), 1)
    IN  IF p.ok /\ \E v \in BadRequestErrors : BadRequestErrorDisplay[v] = p.val
        THEN CHOOSE v \in BadRequestErrors : BadRequestErrorDisplay[v] = p.val
        ELSE NoCode

DeserializeBadRequestError(err) ==
    LET p == ParseJsonString(Quote(err), 1)
    IN  IF p.ok /\ \E v \in BadRequestErrors : BadRequestErrorIdent[v] = p.val
        THEN CHOOSE v \in BadRequestErrors : BadRequestErrorIdent[v] = p.val
        ELSE NoCode

\* As if the list were cut at its first unknown string (map_while).
RECURSIVE FilterMapErrorsStopAtUnknown(_)
FilterMapErrorsStopAtUnknown(errors) ==
    IF errors = << >> THEN << >>
    ELSE LET c == DeserializeBadRequestError(Head(errors))
         IN  IF c = NoCode THEN << >>
             ELSE <<c>> \o FilterMapErrorsStopAtUnknown(Tail(errors))

\* errors.into_iter().filter_map(...).collect()
RECURSIVE FilterMapErrors(_)
FilterMapErrors(errors) ==
    IF errors = << >> THEN << >>
    ELSE LET c == DeserializeBadRequestError(Head(errors))
         IN  (IF c = NoCode THEN << >> ELSE <<c>>) \o FilterMapErrors(Tail(errors))

(***************************************************************************)
(* rate.rs: Rate and Rate::from_headers.                                   *)
(***************************************************************************)
HEADER_RATE_LIMIT == "X-RateLimit-Limit"
HEADER_RATE_REMAINING == "X-RateLimit-Remaining"
HEADER_RATE_RESET == "X-RateLimit-Reset"
HEADER_RATE_RETRY == "Retry-After"

HeaderNames ==
    { HEADER_RATE_LIMIT, HEADER_RATE_REMAINING, HEADER_RATE_RESET, HEADER_RATE_RETRY }

\* A header of a response: absent, present with text that is no number, or
\* present with a decimal number.
Missing == <<"missing", 0>>
Garbage == <<"garbage", 0>>
Num(n) == <<"num", n>>

\* Option<Rate>
NoRate == [some |-> FALSE, limit |-> 0, remaining |-> 0, reset |-> 0, retry |-> 0]
SomeRate(l, r, rs, rt) ==
    [some |-> TRUE, limit |-> l, remaining |-> r, reset |-> rs, retry |-> rt]

\* headers.get(header)?.to_str().ok()?.parse::<T>().ok(), T of largest value max
NoValue == [some |-> FALSE, val |-> 0]
fetch_header(headers, header, max) ==
    LET v == headers[header]
    IN  IF v[1] = "num" /\ v[2] <= max THEN [some |-> TRUE, val |-> v[2]] ELSE NoValue

\* As if retry were the raw Retry-After value and not a point in time.
from_headers_raw_retry(headers, now) ==
    LET limit      == fetch_header(headers, HEADER_RATE_LIMIT, MaxU32)
        remaining  == fetch_header(headers, HEADER_RATE_REMAINING, MaxU32)
        reset_secs == fetch_header(headers, HEADER_RATE_RESET, MaxU64)
        retry_secs == fetch_header(headers, HEADER_RATE_RETRY, MaxU64)
    IN  IF ~limit.some \/ ~remaining.some \/ ~reset_secs.some \/ ~retry_secs.some
        THEN [panic |-> FALSE, rate |-> NoRate]
        ELSE IF now < 0 THEN [panic |-> FALSE, rate |-> NoRate]
        ELSE IF now + reset_secs.val > MaxU64
        THEN [panic |-> TRUE, rate |-> NoRate]
        ELSE [panic |-> FALSE,
              rate  |-> SomeRate(limit.val, remaining.val,
                                 now + reset_secs.val, retry_secs.val)]

\* Rate::from_headers at clock reading now (seconds since the epoch; negative:
\* a clock set before the epoch).  Duration's + panics on overflow.
from_headers(headers, now) ==
    LET limit      == fetch_header(headers, HEADER_RATE_LIMIT, MaxU32)
        remaining  == fetch_header(headers, HEADER_RATE_REMAINING, MaxU32)
        reset_secs == fetch_header(headers, HEADER_RATE_RESET, MaxU64)
        retry_secs == fetch_header(headers, HEADER_RATE_RETRY, MaxU64)
    IN  IF ~limit.some \/ ~remaining.some \/ ~reset_secs.some \/ ~retry_secs.some
        THEN [panic |-> FALSE, rate |-> NoRate]
        ELSE IF now < 0 THEN [panic |-> FALSE, rate |-> NoRate]
        ELSE IF now + reset_secs.val > MaxU64 \/ now + retry_secs.val > MaxU64
        THEN [panic |-> TRUE, rate |-> NoRate]
        ELSE [panic |-> FALSE,
              rate  |-> SomeRate(limit.val, remaining.val,
                                 now + reset_secs.val, now + retry_secs.val)]

(***************************************************************************)
(* Responses.  A body is its text and the JSON value the text denotes:     *)
(* whether it is JSON at all, the fields of the object that are present    *)
(* with a value of the expected type, and the strings of its errors list.  *)
(* A body whose stream fails while it is read is not readable.             *)
(***************************************************************************)
NotJson == [valid |-> FALSE, fields |-> {}, errors |-> << >>, id |-> << >>, choices |-> << >>]
JsonObject(fields, errors) ==
    [valid |-> TRUE, fields |-> fields, errors |-> errors, id |-> << >>, choices |-> << >>]
\* {"id":"...","choices":[...]}: the value of id and the list of choices
JsonVoting(id, choices) ==
    [JsonObject({"id", "choices"}, << >>) EXCEPT !.id = id, !.choices = choices]
\* {"choices":[...]}
JsonChoices(choices) == [JsonObject({"choices"}, << >>) EXCEPT !.choices = choices]

Body(text, json) == [readable |-> TRUE, text |-> text, json |-> json]

BodyEmpty == Body(<< >>, NotJson)
BodyPlainText == Body(<<"Internal Server Error">>, NotJson)
BodyBrokenJson == Body(<<"{\"code\":400,">>, NotJson)
BodyEmptyObject == Body(<<"{}">>, JsonObject({}, << >>))
BodyCodeMessage == Body(<<"{code,message}">>, JsonObject({"code", "message"}, << >>))
BodyVoting == Body(<<"{id,choices}">>, JsonObject({"id", "choices"}, << >>))
BodyUnreadable == [readable |-> FALSE, text |-> <<"partial">>, json |-> NotJson]

\* {"id":"id1","choices":["Spinoza","Kant"]} and {"choices":["Spinoza","Kant"]}
BodyVotingOf(id, choices) == Body(<<"{id,choices}", id, choices>>, JsonVoting(id, choices))
BodyChoices(choices) == Body(<<"{choices}", choices>>, JsonChoices(choices))

\* {"code":400,"message":"Bad Request","errors":[...]}
BodyErrors(errors) ==
    Body(<<"{code,message,errors}", errors>>,
         JsonObject({"code", "message", "errors"}, errors))

\* {"message":"Bad Request","errors":[...]}: the code field is missing
BodyErrorsNoCode(errors) ==
    Body(<<"{message,errors}", errors>>, JsonObject({"message", "errors"}, errors))

(***************************************************************************)
(* lib.rs and client.rs: the payload types, by the fields serde requires.  *)
(***************************************************************************)
RequiredFields(T) ==
    CASE T = "Voting"            -> {"id", "choices"}
      [] T = "OkResponse"        -> {"code", "message"}
      [] T = "SetChoiceResponse" -> {"choices"}
      [] T = "VoteResponse"      -> {"revoted"}
      [] T = "Ballot"            -> {"ballot"}
      [] T = "VotingResults"     -> {"tie", "results"}
      [] T = "ApiErrorResponse"  -> {"code", "message", "errors"}
      [] T = "()"                -> {}

\* As if the fields of the payload were optional (#[serde(default)]).
DecodesAsAnyObject(body, T) == body.readable /\ body.json.valid

\* response.json::<T>().await
DecodesAs(body, T) ==
    body.readable /\ body.json.valid /\ RequiredFields(T) \subseteq body.json.fields

\* As if the text were read from a body already consumed.
TextOrDefaultConsumed(body) == << >>

\* response.text().await.unwrap_or_default()
TextOrDefault(body) == IF body.readable THEN body.text ELSE << >>

(***************************************************************************)
(* errors.rs: ApiError and ClientError; Result<T, ApiError>.               *)
(***************************************************************************)
\* The value of a payload: the fields of Voting and of SetChoiceResponse.
NoStruct == [id |-> << >>, choices |-> << >>]

\* serde's derived Deserialize: each declared field takes the value of the
\* JSON field of its name (a Vec<String> is filled element by element in the
\* order of the array); fields the type does not declare are ignored.
Decode(T, json) ==
    [id      |-> IF "id" \in RequiredFields(T) THEN json.id ELSE << >>,
     choices |-> IF "choices" \in RequiredFields(T)
                 THEN [i \in 1..Len(json.choices) |-> json.choices[i]]
                 ELSE << >>]

\* json is history: the JSON value the payload was decoded from.
NoPayload == [type |-> "", json |-> NotJson, value |-> NoStruct]

Outcome(kind) ==
    [kind |-> kind, errors |-> << >>, msg |-> << >>, cause |-> "", payload |-> NoPayload]

Ok(T, json) ==
    [Outcome("Ok") EXCEPT !.payload = [type |-> T, json |-> json, value |-> Decode(T, json)]]
BadRequest(codes) == [Outcome("BadRequest") EXCEPT !.errors = codes]
InternalServerError(msg) == [Outcome("InternalServerError") EXCEPT !.msg = msg]
Other(msg) == [Outcome("Other") EXCEPT !.msg = msg]
\* ApiError::Client(ClientError::HttpRequestError(err)): err is a decode
\* failure of the body or a failure of the transport call.
HttpRequestError(cause) == [Outcome("Client.HttpRequestError") EXCEPT !.cause = cause]
BadGateway == Outcome("Client.BadGateway")
ServiceUnavailable == Outcome("Client.ServiceUnavailable")
NoResult == Outcome("")

(***************************************************************************)
(* lib.rs: handle_api_response::<T>.                                       *)
(***************************************************************************)
\* As if the arm of 403 named the variant of 401.
StatusErrorForbiddenAsUnauthorized(status) ==
    CASE status = 404 -> Outcome("NotFound")
      [] status = 401 -> Outcome("Unauthorized")
      [] status = 403 -> Outcome("Unauthorized")
      [] status = 429 -> Outcome("TooManyRequests")
      [] status = 405 -> Outcome("MethodNotAllowed")

\* As if a body that does not decode failed the call, as it does for 200.
BadRequestOfDecodeError(body) ==
    IF DecodesAs(body, "ApiErrorResponse")
    THEN BadRequest(FilterMapErrors(body.json.errors))
    ELSE HttpRequestError("decode")

\* As if 503 and 502 were reported as server faults of the taxonomy.
InfraErrorAsServerError(status) ==
    CASE status = 503 -> InternalServerError(<< >>)
      [] status = 502 -> InternalServerError(<< >>)

\* The arms that look at the status alone.
StatusErrorCodes == { 404, 401, 403, 429, 405 }

StatusError(status) ==
    CASE status = 404 -> Outcome("NotFound")
      [] status = 401 -> Outcome("Unauthorized")
      [] status = 403 -> Outcome("Forbidden")
      [] status = 429 -> Outcome("TooManyRequests")
      [] status = 405 -> Outcome("MethodNotAllowed")

\* StatusCode::BAD_REQUEST => match response.json::<ApiErrorResponse>().await
BadRequestOf(body) ==
    IF DecodesAs(body, "ApiErrorResponse")
    THEN BadRequest(FilterMapErrors(body.json.errors))
    ELSE BadRequest(<< >>)

\* The arms that answer with a ClientError.
InfraError(status) ==
    CASE status = 503 -> ServiceUnavailable
      [] status = 502 -> BadGateway

\* As if every success status were decoded (status.is_success()).
handle_api_response_success_class(T, response) ==
    LET status == response.status
        body   == response.body
    IN  CASE status \in 200..299 ->
               IF DecodesAs(body, T) THEN Ok(T, body.json) ELSE HttpRequestError("decode")
          [] status \in StatusErrorCodes -> StatusError(status)
          [] status = 400 -> BadRequestOf(body)
          [] status \in {503, 502} -> InfraError(status)
          [] status = 500 -> InternalServerError(TextOrDefault(body))
          [] OTHER -> Other(TextOrDefault(body))

handle_api_response(T, response) ==
    LET status == response.status
        body   == response.body
    IN  CASE status = 200 ->
               IF DecodesAs(body, T) THEN Ok(T, body.json) ELSE HttpRequestError("decode")
          [] status \in StatusErrorCodes -> StatusError(status)
          [] status = 400 -> BadRequestOf(body)
          [] status \in {503, 502} -> InfraError(status)
          [] status = 500 -> InternalServerError(TextOrDefault(body))
          [] OTHER -> Other(TextOrDefault(body))

(***************************************************************************)
(* client.rs: the public operations, each a payload type and what it       *)
(* returns of the payload.                                                 *)
(***************************************************************************)
Operations ==
    { "create_voting", "get_voting", "delete_voting", "set_choice",
      "vote", "unvote", "get_ballot", "get_voting_results" }

PayloadType(op) ==
    CASE op = "create_voting"      -> "Voting"
      [] op = "get_voting"         -> "Voting"
      [] op = "delete_voting"      -> "OkResponse"
      [] op = "set_choice"         -> "SetChoiceResponse"
      [] op = "vote"               -> "VoteResponse"
      [] op = "unvote"             -> "OkResponse"
      [] op = "get_ballot"         -> "Ballot"
      [] op = "get_voting_results" -> "VotingResults"

\* The choices without their repetitions, each kept where it comes first.
RECURSIVE Dedup(_)
Dedup(s) ==
    IF s = << >> THEN << >>
    ELSE LET init == Dedup(SubSeq(s, 1, Len(s) - 1))
         IN  IF \E i \in DOMAIN init : init[i] = s[Len(s)]
             THEN init
             ELSE Append(init, s[Len(s)])

\* As if delete_voting and unvote dropped the result of the interpreter
\* (no ? after handle_api_response).
FinishDiscardsResult(op, r) ==
    CASE op \in {"delete_voting", "unvote"} -> Ok("()", NotJson)
      [] r.kind = "Ok" /\ op = "set_choice" -> [r EXCEPT !.payload.type = "Vec<String>"]
      [] OTHER -> r

\* As if the client removed repeated choices from the lists it returns.
FinishDedupChoices(op, r) ==
    CASE r.kind = "Ok" /\ op \in {"delete_voting", "unvote"} -> Ok("()", NotJson)
      [] r.kind = "Ok" /\ op = "set_choice" ->
           [r EXCEPT !.payload.type = "Vec<String>",
                     !.payload.value.choices = Dedup(@)]
      [] r.kind = "Ok" /\ op \in {"create_voting", "get_voting"} ->
           [r EXCEPT !.payload.value.choices = Dedup(@)]
      [] OTHER -> r

\* The last lines of each operation:
\*   delete_voting, unvote   let _ = handle_api_response::<OkResponse>(..)?; Ok(())
\*   set_choice              Ok(resp.choices)
\*   the others              the decoded payload (vote and get_ballot return
\*                           its one field)
Finish(op, r) ==
    CASE r.kind = "Ok" /\ op \in {"delete_voting", "unvote"} -> Ok("()", NotJson)
      [] r.kind = "Ok" /\ op = "set_choice" -> [r EXCEPT !.payload.type = "Vec<String>"]
      [] OTHER -> r

(***************************************************************************)
(* Inputs: what a server may answer.                                       *)
(***************************************************************************)
Statuses == { 200, 201, 204, 301, 400, 401, 403, 404, 405, 418, 429, 500, 502, 503 }

Headers(l, r, rs, rt) ==
    (HEADER_RATE_LIMIT :> l) @@ (HEADER_RATE_REMAINING :> r)
        @@ (HEADER_RATE_RESET :> rs) @@ (HEADER_RATE_RETRY :> rt)

NoHeaders == Headers(Missing, Missing, Missing, Missing)
FullHeaders == Headers(Num(1), Num(0), Num(1), Num(0))
\* The largest delta a header can carry.
HugeResetHeaders == Headers(Num(1), Num(0), Num(MaxU64), Num(0))

IsDefect(v) == v[1] # "num"

\* Every header map with at most one header missing or unparseable (a value
\* above MaxU32 does not parse as u32), and the map with no header at all.
HeaderMaps ==
    { h \in { Headers(l, r, rs, rt) :
                l  \in { Missing, Garbage, Num(1) },
                r  \in { Missing, Num(0), Num(MaxU32 + 1) },
                rs \in { Missing, Num(1), Num(MaxU64) },
                rt \in { Missing, Garbage, Num(0), Num(1) } } :
        Cardinality({ n \in HeaderNames : IsDefect(h[n]) \/ h[n][2] > MaxU64 }
                    \cup (IF h[HEADER_RATE_REMAINING][2] > MaxU32
                          THEN {HEADER_RATE_REMAINING} ELSE {})) <= 1 }
    \cup { NoHeaders }

\* All four headers are present and each holds a number of its type.
Complete(h) ==
    /\ \A n \in HeaderNames : h[n][1] = "num"
    /\ h[HEADER_RATE_LIMIT][2] <= MaxU32 /\ h[HEADER_RATE_REMAINING][2] <= MaxU32
    /\ h[HEADER_RATE_RESET][2] <= MaxU64 /\ h[HEADER_RATE_RETRY][2] <= MaxU64

SeqsUpTo(S, n) == UNION { [1..k -> S] : k \in 0..n }

CoreErrorStrings ==
    { BadRequestErrorIdent["InvalidData"], BadRequestErrorDisplay["InvalidData"],
      BadRequestErrorIdent["MissingChoices"], StrUnknown }

SampleErrorStrings ==
    { BadRequestErrorIdent[v] : v \in BadRequestErrors }
    \cup { BadRequestErrorDisplay[v] : v \in BadRequestErrors }
    \cup { StrEscapedIdent, StrQuoteInside, StrTrailingQuote, StrBackslash,
           StrBadEscape, StrLowercase, StrUnknown, StrPadded, StrSolidus, StrEmpty }

ErrorLists ==
    SeqsUpTo(CoreErrorStrings, MaxErrors)
    \cup { <<s>> : s \in SampleErrorStrings }
    \cup { <<BadRequestErrorDisplay["InvalidData"], BadRequestErrorDisplay["MissingChoices"]>>,
           <<BadRequestErrorDisplay["VoterIDTooLong"], StrUnknown,
             BadRequestErrorIdent["BallotRequired"]>> }

PlainBodies ==
    { BodyEmpty, BodyPlainText, BodyBrokenJson, BodyEmptyObject, BodyCodeMessage,
      BodyVoting, BodyUnreadable }

ErrorBodies ==
    { BodyErrors(e) : e \in ErrorLists }
    \cup { BodyErrorsNoCode(e) : e \in { << >>, <<BadRequestErrorIdent["InvalidData"]>> } }

Response(status, headers, body) ==
    [status |-> status, headers |-> headers, body |-> body]

NoResponse == Response(0, NoHeaders, BodyEmpty)

\* The responses the rate-state specification draws from: every header map,
\* few bodies.
RateResponses ==
    { Response(s, h, b) : s \in { 200, 400, 404, 429, 500, 503 }, h \in HeaderMaps,
                          b \in { BodyEmpty, BodyVoting } }

\* The responses the interpreter specification draws from: every status and
\* body, few header maps.
ChoiceLists == { <<"Spinoza", "Kant">>, <<"Kant", "Spinoza", "Kant">> }

VotingBodies ==
    { BodyVotingOf(<<"i", "d", "1">>, c) : c \in ChoiceLists }
    \cup { BodyChoices(c) : c \in ChoiceLists }

InterpResponses ==
    { Response(s, NoHeaders, b) : s \in Statuses, b \in PlainBodies \cup ErrorBodies }
    \cup { Response(200, NoHeaders, b) : b \in VotingBodies }
    \cup { Response(s, h, b) : s \in { 200, 400 }, h \in { FullHeaders, HugeResetHeaders },
                              b \in { BodyEmpty, BodyVoting } }

(***************************************************************************)
(* client.rs: ClientBuilder and the request a public operation builds.     *)
(* URLs, paths and identifiers are sequences of characters.                *)
(***************************************************************************)
DEFAULT_BASE_URL ==
    <<"h", "t", "t", "p", "s", ":", "/", "/", "a", "p", "i", ".", "d", "i", "r", "e", "c", "t", "d", "e", "c", "i", "s", "i", "o", "n", "s", ".", "c", "o", "m">>
CONTENT_TYPE == "application/json; charset=utf-8"
USER_AGENT == "ddclient-rs/0.1.0"

Letters == { Ascii[i] : i \in (34..59) \cup (66..91) }
Digits == { Ascii[i] : i \in 17..26 }

\* The position of the first occurrence of c in s, 0 when there is none.
IndexOf(s, c) ==
    IF \E i \in DOMAIN s : s[i] = c
    THEN CHOOSE i \in DOMAIN s : s[i] = c /\ \A j \in 1..(i - 1) : s[j] # c
    ELSE 0

\* reqwest::Url::parse(&url) succeeds, as far as the URLs a builder is given
\* here go: the text starts with a scheme (a letter, then letters, digits,
\* +, - or ., then a colon), and an http or https URL names a host after the
\* slashes that follow the colon.
UrlParses(url) ==
    LET colon  == IndexOf(url, ":")
        scheme == SubSeq(url, 1, colon - 1)
        rest   == SubSeq(url, colon + 1, Len(url))
    IN  /\ colon > 1
        /\ url[1] \in Letters
        /\ \A j \in 2..(colon - 1) : url[j] \in Letters \cup Digits \cup {"+", "-", "."}
        /\ scheme \in { <<"h", "t", "t", "p">>, <<"h", "t", "t", "p", "s">> }
             => \E i \in DOMAIN rest :
                  /\ rest[i] \notin {"/", "\\", "?", "#"}
                  /\ \A j \in 1..(i - 1) : rest[j] \in {"/", "\\"}

\* api_url.ends_with('/')
EndsWithSlash(url) == url # << >> /\ url[Len(url)] = "/"

\* As if the separator were pushed whatever the URL ends with.
PushSlashAlways(url) == Append(url, "/")

\* if !api_url.ends_with('/') { api_url.push('/'); }
PushSlash(url) == IF ~EndsWithSlash(url) THEN Append(url, "/") ELSE url

\* Option<String>
NoUrl == [some |-> FALSE, url |-> << >>]
SomeUrl(url) == [some |-> TRUE, url |-> url]

\* Client::builder(token), then api_url(url) or not.
ClientBuilder(token, api_url) == [token |-> token, api_url |-> api_url]

NoClient == [token |-> "", api_url |-> << >>]

\* ClientBuilder::build: expect panics on a URL that does not parse.
build(self) ==
    IF self.api_url.some /\ ~UrlParses(self.api_url.url)
    THEN [panic |-> TRUE, client |-> NoClient]
    ELSE [panic  |-> FALSE,
          client |-> [token   |-> self.token,
                      api_url |-> PushSlash(IF self.api_url.some
                                            THEN self.api_url.url
                                            ELSE DEFAULT_BASE_URL)]]

\* Client::new(token)
new(token) == build(ClientBuilder(token, NoUrl)).client

\* url_escape::encode_path_to_string: the path percent-encode set of the URL
\* standard, that is the control characters, everything outside ASCII,
\* space, ", #, <, >, ?, the grave accent, { and }.  The slash and the
\* percent sign are not in it.  Identifiers here hold printable ASCII.
PathEncodeSet == { " ", "\"", "#", "<", ">", "?", "<grave>", "{", "}" }

CharCode(c) == 31 + IndexOf(Ascii, c)

UpperHex(d) == IF d < 10 THEN HexDigits[d + 1] ELSE HexDigits[d + 7]

PercentEncode(c) == <<"%", UpperHex(CharCode(c) \div 16), UpperHex(CharCode(c) % 16)>>

RECURSIVE encode_path(_)
encode_path(s) ==
    IF s = << >> THEN << >>
    ELSE (IF Head(s) \in PathEncodeSet THEN PercentEncode(Head(s)) ELSE <<Head(s)>>)
             \o encode_path(Tail(s))

\* The arguments of an operation that go into its path.
NoArgs == [voting_id |-> << >>, voter_id |-> << >>]

VotingOperations == { "get_voting", "delete_voting", "set_choice", "get_voting_results" }
BallotOperations == { "vote", "unvote", "get_ballot" }

ArgsOf(op, voting_id, voter_id) ==
    CASE op \in VotingOperations -> [voting_id |-> voting_id, voter_id |-> << >>]
      [] op \in BallotOperations -> [voting_id |-> voting_id, voter_id |-> voter_id]
      [] OTHER                   -> NoArgs

\* The uri each operation builds.
Path(op, args) ==
    LET votings == <<"v", "1", "/", "v", "o", "t", "i", "n", "g", "s">>
        voting  == votings \o <<"/">> \o encode_path(args.voting_id)
        ballot  == voting \o <<"/", "b", "a", "l", "l", "o", "t", "s", "/">> \o encode_path(args.voter_id)
    IN  CASE op = "create_voting"                    -> votings
          [] op \in {"get_voting", "delete_voting"} -> voting
          [] op = "set_choice"                       -> voting \o <<"/", "c", "h", "o", "i", "c", "e", "s">>
          [] op \in BallotOperations                 -> ballot
          [] op = "get_voting_results"               -> voting \o <<"/", "r", "e", "s", "u", "l", "t", "s">>

Method(op) ==
    CASE op \in {"create_voting", "set_choice", "vote"}              -> "POST"
      [] op \in {"get_voting", "get_ballot", "get_voting_results"} -> "GET"
      [] op \in {"delete_voting", "unvote"}                          -> "DELETE"

\* Option<T> of the body argument, by the type that is serialized.
NoBody == [some |-> FALSE, type |-> ""]
SomeBody(T) == [some |-> TRUE, type |-> T]

RequestBody(op) ==
    CASE op = "create_voting" -> SomeBody("VotingRequest")
      [] op = "set_choice"    -> SomeBody("SetChoiceRequest")
      [] op = "vote"          -> SomeBody("Ballot")
      [] OTHER                -> NoBody

\* RequestBuilder::json: the body is set, and Content-Type: application/json
\* is added unless the request has a Content-Type already.
json(headers, b) ==
    [headers |-> IF \E h \in headers : h[1] = "Content-Type"
                 THEN headers
                 ELSE headers \cup { <<"Content-Type", <<"application/json">>>> },
     body    |-> [some |-> TRUE, json |-> b.type]]

NoRequest ==
    [method |-> "", url |-> << >>, path |-> << >>, headers |-> {},
     body |-> [some |-> FALSE, json |-> ""]]

\* As if Content-Type were set on every request.
RequestWithContentTypeAlways(self, method, path, body) ==
    LET common == { <<"Authorization", <<"Bearer ", self.token>>>>,
                    <<"Accept", <<CONTENT_TYPE>>>>,
                    <<"User-Agent", <<USER_AGENT>>>>,
                    <<"Content-Type", <<CONTENT_TYPE>>>> }
        filled == IF body.some
                  THEN json(common, body)
                  ELSE [headers |-> common, body |-> NoRequest.body]
    IN  [method |-> method, url |-> self.api_url \o path, path |-> path,
         headers |-> filled.headers, body |-> filled.body]

\* Client::request up to send: the URL, the three headers of every request,
\* and Content-Type and the JSON body when there is a body.  path is history:
\* the path argument.
Request(self, method, path, body) ==
    LET common == { <<"Authorization", <<"Bearer ", self.token>>>>,
                    <<"Accept", <<CONTENT_TYPE>>>>,
                    <<"User-Agent", <<USER_AGENT>>>> }
        filled == IF body.some
                  THEN json(common \cup { <<"Content-Type", <<CONTENT_TYPE>>>> }, body)
                  ELSE [headers |-> common, body |-> NoRequest.body]
    IN  [method |-> method, url |-> self.api_url \o path, path |-> path,
         headers |-> filled.headers, body |-> filled.body]

\* Identifiers and builders to draw from.
PlainId == <<"i", "d", "1">>
SampleIds ==
    { PlainId, <<"a", " ", "b">>, <<"a", "/", "b">>, <<"a", "?", "b">>, <<"a", "%", "2", "F", "b">> }

TestToken == "test-token"

SampleUrls ==
    { <<"h", "t", "t", "p", ":", "/", "/", "l", "o", "c", "a", "l", "h", "o", "s", "t", ":", "8", "0", "8", "0">>,
      <<"h", "t", "t", "p", ":", "/", "/", "l", "o", "c", "a", "l", "h", "o", "s", "t", ":", "8", "0", "8", "0", "/">>,
      <<"h", "t", "t", "p", "s", ":", "/", "/", "e", "x", "a", "m", "p", "l", "e", ".", "c", "o", "m", "/", "a", "p", "i">>,
      <<"l", "o", "c", "a", "l", "h", "o", "s", "t">>,
      <<"h", "t", "t", "p", ":", "/", "/">> }

Builders ==
    { ClientBuilder(token, url) :
        token \in { TestToken, "my-api-key" },
        url \in { NoUrl } \cup { SomeUrl(u) : u \in SampleUrls } }

(***************************************************************************)
(* State.                                                                  *)
(***************************************************************************)
VARIABLES
    rate,        \* Client.rate: the Option<Rate> behind the mutex
    lock,        \* the task holding the mutex, 0 when it is free
    clock,       \* SystemTime::now() in seconds since the epoch
    tasks,       \* the callers of the client: position and locals of each
    exchange,    \* history: the headers of the last completed HTTP exchange
    client,      \* Client: token and api_url
    builder      \* history: the ClientBuilder the client was built from

vars == <<rate, lock, clock, tasks, exchange, client, builder>>

Tasks == 1..NumTasks

\* A caller at rest.  sent tells how request.send().await ended ("ok" with a
\* response, "failed" without); before is history: the rate state when the
\* call began; sends and writes are history: the transport calls and the
\* writes to the rate state of the invocation.
Idle ==
    [ pc          |-> "idle",
      op          |-> "",
      sent        |-> "",
      response    |-> NoResponse,
      rate_update |-> NoRate,
      result      |-> NoResult,
      got         |-> NoRate,
      before      |-> NoRate,
      args        |-> NoArgs,
      request     |-> NoRequest,
      sends       |-> 0,
      writes      |-> 0 ]

\* writer is the task whose write to the rate state was the last one, 0
\* when there was none; read is the value get_rate() returned last and the
\* clock reading then, as long as no response has arrived and no value was
\* stored since.
NoRead == [valid |-> FALSE, value |-> NoRate, at |-> 0]

NoExchange ==
    [completed |-> FALSE, headers |-> NoHeaders, at |-> 0, writer |-> 0, read |-> NoRead]

\* Client::new: the default URL, rate: Arc::new(Mutex::new(None))
Init ==
    /\ rate = NoRate
    /\ lock = 0
    /\ clock = 1
    /\ tasks = [t \in Tasks |-> Idle]
    /\ exchange = NoExchange
    /\ builder = ClientBuilder(TestToken, NoUrl)
    /\ client = new(TestToken)

Set(t, fields) == tasks' = [tasks EXCEPT ![t] = fields]

(***************************************************************************)
(* Client::request and the operation around it, step by step.              *)
(***************************************************************************)
\* A public operation is called: the request is built and sent.
Call(t, ops, ids) ==
    /\ tasks[t].pc = "idle"
    /\ \E op \in ops, voting_id \in ids, voter_id \in ids :
         LET args == ArgsOf(op, voting_id, voter_id)
         IN  Set(t, [Idle EXCEPT
                       !.pc = "send", !.op = op, !.before = rate, !.args = args,
                       !.request = Request(client, Method(op), Path(op, args),
                                           RequestBody(op))])
    /\ UNCHANGED <<rate, lock, clock, exchange, client, builder>>

\* request.send().await returns a response.
SendOk(t, responses) ==
    /\ tasks[t].pc = "send"
    /\ \E r \in responses :
         /\ Set(t, [tasks[t] EXCEPT !.pc = "parse", !.sent = "ok", !.response = r,
                                     !.sends = @ + 1])
         /\ exchange' = [exchange EXCEPT !.completed = TRUE, !.headers = r.headers,
                                          !.at = clock, !.read = NoRead]
    /\ UNCHANGED <<rate, lock, clock, client, builder>>

\* As if a failed transport call reset the rate state.
SendErrClearsRate(t) ==
    /\ tasks[t].pc = "send"
    /\ Set(t, [tasks[t] EXCEPT !.pc = "done", !.sent = "failed", !.sends = @ + 1,
                                !.result = HttpRequestError("transport")])
    /\ rate' = NoRate
    /\ UNCHANGED <<lock, clock, exchange, client, builder>>

\* request.send().await fails: map_err, no header is read, the error is
\* returned and the ? operator turns it into ApiError::Client.
SendErr(t) ==
    /\ tasks[t].pc = "send"
    /\ Set(t, [tasks[t] EXCEPT !.pc = "done", !.sent = "failed", !.sends = @ + 1,
                                !.result = HttpRequestError("transport")])
    /\ UNCHANGED <<rate, lock, clock, exchange, client, builder>>

\* let rate_update = Rate::from_headers(response.headers());
ParseHeaders(t) ==
    /\ tasks[t].pc = "parse"
    /\ LET parsed == from_headers(tasks[t].response.headers, clock)
       IN  IF parsed.panic
           THEN Set(t, [tasks[t] EXCEPT !.pc = "panicked"])
           ELSE Set(t, [tasks[t] EXCEPT !.pc = "lock", !.rate_update = parsed.rate])
    /\ UNCHANGED <<rate, lock, clock, exchange, client, builder>>

\* let mut rate = self.rate.lock().unwrap();
Lock(t) ==
    /\ tasks[t].pc = "lock"
    /\ lock = 0
    /\ lock' = t
    /\ Set(t, [tasks[t] EXCEPT !.pc = "store"])
    /\ UNCHANGED <<rate, clock, exchange, client, builder>>

\* As if the fields were assigned one by one, limit and remaining in a first
\* critical section and reset and retry in a second one.
StoreFieldwise(t) ==
    /\ tasks[t].pc = "store"
    /\ IF rate.some /\ tasks[t].rate_update.some
          /\ rate.limit # tasks[t].rate_update.limit
       THEN /\ rate' = [rate EXCEPT !.limit = tasks[t].rate_update.limit,
                                    !.remaining = tasks[t].rate_update.remaining]
            /\ lock' = 0
            /\ Set(t, [tasks[t] EXCEPT !.pc = "lock", !.writes = @ + 1])
       ELSE /\ rate' = tasks[t].rate_update
            /\ lock' = lock
            /\ Set(t, [tasks[t] EXCEPT !.pc = "unlock", !.writes = @ + 1])
    /\ exchange' = [exchange EXCEPT !.writer = t, !.read = NoRead]
    /\ UNCHANGED <<clock, client, builder>>

\* As if the first value stored were kept and later writes were dropped.
StoreFirstWins(t) ==
    /\ tasks[t].pc = "store"
    /\ rate' = IF exchange.writer = 0 THEN tasks[t].rate_update ELSE rate
    /\ Set(t, [tasks[t] EXCEPT !.pc = "unlock", !.writes = @ + 1])
    /\ exchange' = [exchange EXCEPT !.writer = t, !.read = NoRead]
    /\ UNCHANGED <<lock, clock, client, builder>>

\* As if a response without a snapshot left the stored one in place.
StoreKeepPrevious(t) ==
    /\ tasks[t].pc = "store"
    /\ rate' = IF tasks[t].rate_update.some THEN tasks[t].rate_update ELSE rate
    /\ Set(t, [tasks[t] EXCEPT !.pc = "unlock", !.writes = @ + 1])
    /\ exchange' = [exchange EXCEPT !.writer = t, !.read = NoRead]
    /\ UNCHANGED <<lock, clock, client, builder>>

\* *rate = rate_update;
Store(t) ==
    /\ tasks[t].pc = "store"
    /\ rate' = tasks[t].rate_update
    /\ Set(t, [tasks[t] EXCEPT !.pc = "unlock", !.writes = @ + 1])
    /\ exchange' = [exchange EXCEPT !.writer = t, !.read = NoRead]
    /\ UNCHANGED <<lock, clock, client, builder>>

\* As if the guard lived until request returned its result.
UnlockAfterInterpret(t) ==
    /\ tasks[t].pc = "unlock"
    /\ lock' = lock
    /\ Set(t, [tasks[t] EXCEPT !.pc = "interpret"])
    /\ UNCHANGED <<rate, clock, exchange, client, builder>>

\* The guard is dropped at the end of the block; request returns the response.
Unlock(t) ==
    /\ tasks[t].pc = "unlock"
    /\ lock' = 0
    /\ Set(t, [tasks[t] EXCEPT !.pc = "interpret"])
    /\ UNCHANGED <<rate, clock, exchange, client, builder>>

\* handle_api_response(response).await and the operation's own last lines.
Interpret(t) ==
    /\ tasks[t].pc = "interpret"
    /\ Set(t, [tasks[t] EXCEPT
                 !.pc = "done",
                 !.result = Finish(tasks[t].op,
                               handle_api_response(PayloadType(tasks[t].op),
                                                   tasks[t].response))])
    /\ UNCHANGED <<rate, lock, clock, exchange, client, builder>>

\* The caller takes the result (or sees the panic of its task) and is free
\* to call again.
Return(t) ==
    /\ tasks[t].pc \in {"done", "panicked", "got"}
    /\ Set(t, Idle)
    /\ UNCHANGED <<rate, lock, clock, exchange, client, builder>>

(***************************************************************************)
(* Client::get_rate.                                                       *)
(***************************************************************************)
\* get_rate() is called.
GetRateCall(t) ==
    /\ tasks[t].pc = "idle"
    /\ Set(t, [Idle EXCEPT !.pc = "acquire", !.op = "get_rate", !.before = rate])
    /\ UNCHANGED <<rate, lock, clock, exchange, client, builder>>

\* let rate = self.rate.lock().unwrap();
GetRateLock(t) ==
    /\ tasks[t].pc = "acquire"
    /\ lock = 0
    /\ lock' = t
    /\ Set(t, [tasks[t] EXCEPT !.pc = "clone"])
    /\ UNCHANGED <<rate, clock, exchange, client, builder>>

\* As if the copy held the seconds left and not the points in time.
GetRateCloneSecondsLeft(t) ==
    /\ tasks[t].pc = "clone"
    /\ Set(t, [tasks[t] EXCEPT
                 !.pc = "release",
                 !.got = IF rate.some
                         THEN [rate EXCEPT !.reset = @ - clock, !.retry = @ - clock]
                         ELSE rate])
    /\ UNCHANGED <<rate, lock, clock, exchange, client, builder>>

\* rate.clone()
GetRateClone(t) ==
    /\ tasks[t].pc = "clone"
    /\ Set(t, [tasks[t] EXCEPT !.pc = "release", !.got = rate])
    /\ UNCHANGED <<rate, lock, clock, exchange, client, builder>>

\* The guard is dropped and the copy is returned.
GetRateUnlock(t) ==
    /\ tasks[t].pc = "release"
    /\ lock' = 0
    /\ Set(t, [tasks[t] EXCEPT !.pc = "got"])
    /\ exchange' = [exchange EXCEPT
                      !.read = [valid |-> TRUE, value |-> tasks[t].got, at |-> clock]]
    /\ UNCHANGED <<rate, clock, client, builder>>

\* Time passes.
Tick ==
    /\ clock < MaxNow
    /\ clock' = clock + 1
    /\ UNCHANGED <<rate, lock, tasks, exchange, client, builder>>

(***************************************************************************)
(* Specifications.  One caller using the client call after call:           *)
(*   Spec        every header map, to follow the rate state;               *)
(*   InterpSpec  every status and body, to follow the results.             *)
(***************************************************************************)
Caller == CHOOSE t \in Tasks : \A u \in Tasks : t <= u

Steps(t) ==
    \/ SendErr(t)
    \/ ParseHeaders(t)
    \/ Lock(t)
    \/ Store(t)
    \/ Unlock(t)
    \/ Interpret(t)
    \/ Return(t)
    \/ GetRateCall(t)
    \/ GetRateLock(t)
    \/ GetRateClone(t)
    \/ GetRateUnlock(t)

Next ==
    \/ Call(Caller, Operations, {PlainId})
    \/ SendOk(Caller, RateResponses)
    \/ Steps(Caller)
    \/ Tick

Spec == Init /\ [][Next]_vars

InterpNext ==
    \/ Call(Caller, Operations, {PlainId})
    \/ SendOk(Caller, InterpResponses)
    \/ Steps(Caller)
    \/ Tick

InterpSpec == Init /\ [][InterpNext]_vars

\* One caller, clients built from every builder, every identifier.
RequestResponses == { Response(200, FullHeaders, BodyVoting) }

RequestInit ==
    /\ rate = NoRate
    /\ lock = 0
    /\ clock = 1
    /\ tasks = [t \in Tasks |-> Idle]
    /\ exchange = NoExchange
    /\ builder \in { b \in Builders : ~build(b).panic }
    /\ client = build(builder).client

RequestNext ==
    \/ Call(Caller, Operations, SampleIds)
    \/ SendOk(Caller, RequestResponses)
    \/ Steps(Caller)

RequestSpec == RequestInit /\ [][RequestNext]_vars

\* Several callers share the client (its methods take &self and the rate
\* state is an Arc<Mutex<..>>), each calling get_voting or get_rate.
ConcOperations == { "get_voting" }

ChangedHeaders == Headers(Num(MaxU32), Num(1), Num(0), Num(1))

ConcResponses ==
    { Response(200, FullHeaders, BodyVoting),
      Response(429, ChangedHeaders, BodyEmpty) }

ConcNext ==
    \E t \in Tasks :
        \/ Call(t, ConcOperations, {PlainId})
        \/ SendOk(t, ConcResponses)
        \/ Steps(t)

ConcSpec == Init /\ [][ConcNext]_vars

\* The same callers, racing with a response that has the rate headers and
\* one that has none.
RaceResponses ==
    { Response(200, FullHeaders, BodyVoting),
      Response(404, NoHeaders, BodyEmpty) }

RaceNext ==
    \E t \in Tasks :
        \/ Call(t, ConcOperations, {PlainId})
        \/ SendOk(t, RaceResponses)
        \/ Steps(t)

RaceSpec == Init /\ [][RaceNext]_vars

\* The same callers, with a response whose reset delta is the largest a
\* header can carry.
FairConcResponses == ConcResponses \cup { Response(200, HugeResetHeaders, BodyVoting) }

FairConcNext ==
    \E t \in Tasks :
        \/ Call(t, ConcOperations, {PlainId})
        \/ SendOk(t, FairConcResponses)
        \/ Steps(t)

\* Scheduling.  A task that can take a step of its own takes it; no
\* assumption is made on the network, so a call may wait for its response
\* for ever.  The mutex is granted to a task that asks for it again and
\* again (strong fairness: the request is disabled while another task
\* holds the guard).
Fairness ==
    \A t \in Tasks :
        /\ WF_vars(ParseHeaders(t))
        /\ SF_vars(Lock(t))
        /\ WF_vars(Store(t))
        /\ WF_vars(Unlock(t))
        /\ WF_vars(Interpret(t))
        /\ SF_vars(GetRateLock(t))
        /\ WF_vars(GetRateClone(t))
        /\ WF_vars(GetRateUnlock(t))

FairConcSpec == Init /\ [][FairConcNext]_vars /\ Fairness


(***************************************************************************)
(* Properties.  Me is the one caller of Spec and InterpSpec; Answered      *)
(* holds when its operation has returned after a response was obtained.    *)
(***************************************************************************)
Me == tasks[Caller]

Answered == Me.pc = "done" /\ Me.sent = "ok"

\* r is what parsing the headers h gives at some clock reading between the
\* arrival of the response and now.
IsParseOf(r, h, since) ==
    \E at \in since..clock :
        /\ ~from_headers(h, at).panic
        /\ r = from_headers(h, at).rate

\* C1: get_rate() returns the parse of the rate-limit headers of the most
\* recently completed HTTP exchange, whatever its status, or None when no
\* exchange has completed; when an operation returns after a response, the
\* rate state already reflects that response's headers.
C1_GetRateReflectsLastExchange ==
    /\ Me.pc = "got" =>
         IF exchange.completed
         THEN IsParseOf(Me.got, exchange.headers, exchange.at)
         ELSE Me.got = NoRate
    /\ Answered => IsParseOf(rate, Me.response.headers, exchange.at)

\* C2: once a response with missing or incomplete rate-limit headers has
\* been stored, the rate state is None, whatever snapshot was stored before:
\* the previous snapshot is overwritten, not kept and not merged.
C2_IncompleteHeadersClearRate ==
    ( /\ Me.sent = "ok"
      /\ Me.pc \in {"unlock", "interpret", "done"}
      /\ ~Complete(Me.response.headers) )
    => rate = NoRate

\* C2 witness: a snapshot was stored when the call began, the response holds
\* some but not all of the headers, and the operation has returned.
C2_Witness ==
    /\ Answered
    /\ Me.before.some
    /\ ~Complete(Me.response.headers)
    /\ Me.response.headers # NoHeaders
    /\ rate = NoRate

\* C3: when the transport call fails and no response is obtained, the
\* operation returns ApiError::Client(ClientError::HttpRequestError) and the
\* rate state is what it was before the call.
C3_TransportFailureKeepsRate ==
    Me.sent = "failed" =>
        /\ Me.pc = "done"
        /\ Me.result = HttpRequestError("transport")
        /\ Me.response = NoResponse
        /\ rate = Me.before

\* C3 witness: a transport failure of a call made while a snapshot is stored.
C3_Witness ==
    /\ Me.pc = "done"
    /\ Me.sent = "failed"
    /\ Me.before.some
    /\ rate = Me.before


(***************************************************************************)
(* Properties of the results, checked under InterpSpec.                    *)
(***************************************************************************)
Status == Me.response.status
TheBody == Me.response.body

\* The body decodes as {code, message, errors}.
DecodesAsErrorResponse(body) ==
    /\ body.readable
    /\ body.json.valid
    /\ {"code", "message", "errors"} \subseteq body.json.fields

\* The variant a status stands for, by the table of the specification.
VariantOfStatus(status) ==
    CASE status = 404 -> "NotFound"
      [] status = 401 -> "Unauthorized"
      [] status = 403 -> "Forbidden"
      [] status = 429 -> "TooManyRequests"
      [] status = 405 -> "MethodNotAllowed"

\* C4: a response with status 404, 401, 403, 429 or 405 yields exactly
\* NotFound, Unauthorized, Forbidden, TooManyRequests or MethodNotAllowed,
\* whatever the body and the operation: never Ok, never Other.
C4_StatusAloneDecides ==
    (Answered /\ Status \in {404, 401, 403, 429, 405})
    => Me.result = Outcome(VariantOfStatus(Status))

\* C4 witness: a 403 whose body would decode as an error list, answered with
\* Forbidden.
C4_Witness ==
    /\ Answered
    /\ Status = 403
    /\ DecodesAsErrorResponse(TheBody)
    /\ TheBody.json.errors # << >>
    /\ Me.result.kind = "Forbidden"

\* Every string of the list is the display text of a validation code.
AllDisplayTexts(errors) ==
    \A i \in 1..Len(errors) : \E v \in BadRequestErrors : errors[i] = BadRequestErrorDisplay[v]

CodeOfDisplay(s) == CHOOSE v \in BadRequestErrors : s = BadRequestErrorDisplay[v]

\* C5: a 400 response whose body decodes and whose errors list holds the
\* server's human-readable validation strings yields BadRequest with the
\* code of each string, in order.
C5_DisplayTextsYieldCodes ==
    ( /\ Answered
      /\ Status = 400
      /\ DecodesAsErrorResponse(TheBody)
      /\ AllDisplayTexts(TheBody.json.errors) )
    => Me.result =
         BadRequest([i \in 1..Len(TheBody.json.errors) |->
                        CodeOfDisplay(TheBody.json.errors[i])])

\* C6: get_voting answered by 400 with the body
\* {"code":400,"message":"Bad Request","errors":["InvalidData"]} yields
\* BadRequest with exactly one element, InvalidData.
C6_InvalidDataIdentifier ==
    ( /\ Answered
      /\ Me.op = "get_voting"
      /\ Status = 400
      /\ TheBody = BodyErrors(<<BadRequestErrorIdent["InvalidData"]>>) )
    => /\ Me.result.kind = "BadRequest"
       /\ Me.result.errors = <<"InvalidData">>

\* C6 witness: that call has returned.
C6_Witness ==
    /\ Answered
    /\ Me.op = "get_voting"
    /\ Status = 400
    /\ TheBody = BodyErrors(<<BadRequestErrorIdent["InvalidData"]>>)
    /\ Len(Me.result.errors) = 1

\* Strings no validation code is written as, escapes or not.
UnknownStrings ==
    { StrUnknown, StrLowercase, StrPadded, StrEmpty, StrQuoteInside, StrTrailingQuote }

\* C7: a 400 response whose body does not decode as {code, message, errors}
\* (empty, not JSON, a field missing, unreadable) yields BadRequest with an
\* empty list, not a transport error and not Other; a body that decodes and
\* holds no recognized string yields the same result.
C7_UndecodableBodyIsEmptyBadRequest ==
    ( /\ Answered
      /\ Status = 400
      /\ \/ ~DecodesAsErrorResponse(TheBody)
         \/ \A i \in 1..Len(TheBody.json.errors) : TheBody.json.errors[i] \in UnknownStrings )
    => Me.result = BadRequest(<< >>)

\* C7 witness: a 400 whose body is a JSON object without the code field,
\* though its errors list names a code.
C7_Witness ==
    /\ Answered
    /\ Status = 400
    /\ TheBody = BodyErrorsNoCode(<<BadRequestErrorIdent["InvalidData"]>>)
    /\ Me.result = BadRequest(<< >>)

\* A string names a code when it is the code's identifier, written plainly
\* or, since the string is read as JSON, with a JSON escape for a character.
NamesCode(s, v) ==
    \/ s = BadRequestErrorIdent[v]
    \/ s = StrEscapedIdent /\ v = "InvalidData"

\* The codes of the strings that name one, in order; the other strings give
\* nothing.
RECURSIVE NamedCodes(_)
NamedCodes(errors) ==
    IF errors = << >> THEN << >>
    ELSE (IF \E v \in BadRequestErrors : NamesCode(Head(errors), v)
          THEN <<CHOOSE v \in BadRequestErrors : NamesCode(Head(errors), v)>>
          ELSE << >>) \o NamedCodes(Tail(errors))

C9_InfraStatusesAreClientErrors ==
    /\ (Answered /\ Status = 503) => Me.result = Outcome("Client.ServiceUnavailable")
    /\ (Answered /\ Status = 502) => Me.result = Outcome("Client.BadGateway")

\* C9 witness: a 502 with a body of text.
C9_Witness ==
    /\ Answered
    /\ Status = 502
    /\ TheBody = BodyPlainText
    /\ Me.result.kind = "Client.BadGateway"

\* C10: 500 yields InternalServerError(m), m being the body text unchanged,
\* and the empty string when the body is empty or cannot be read; a body
\* that is JSON is passed on as text like any other.
C10_ServerErrorCarriesBodyText ==
    (Answered /\ Status = 500)
    => /\ Me.result.kind = "InternalServerError"
       /\ Me.result = InternalServerError(Me.result.msg)
       /\ TheBody.readable => Me.result.msg = TheBody.text
       /\ ~TheBody.readable => Me.result.msg = << >>
       /\ TheBody = BodyEmpty => Me.result.msg = << >>

\* C10 witness: a 500 whose body is the text Internal Server Error.
C10_Witness ==
    /\ Answered
    /\ Status = 500
    /\ TheBody = BodyPlainText
    /\ Me.result.msg = <<"Internal Server Error">>


\* The statuses the interpreter has an arm for.
MappedStatuses == { 200, 404, 401, 403, 429, 405, 400, 503, 502, 500 }

ResultKinds ==
    { "Ok", "BadRequest", "Unauthorized", "NotFound", "Forbidden", "InternalServerError",
      "MethodNotAllowed", "TooManyRequests", "Other", "Client.BadGateway",
      "Client.HttpRequestError", "Client.ServiceUnavailable" }

\* C11: every status outside 200, 404, 401, 403, 429, 405, 400, 503, 502 and
\* 500 yields Other(body text), success codes such as 201 and 204 and
\* redirects included; Ok is returned for status 200 only, and every status
\* yields one outcome of the taxonomy.
C11_UnmappedStatusesAreOther ==
    Answered =>
        /\ Me.result.kind \in ResultKinds
        /\ Me.result.kind = "Ok" => Status = 200
        /\ Status \notin MappedStatuses =>
             Me.result = Other(IF TheBody.readable THEN TheBody.text ELSE << >>)

\* C11 witness: a 201 whose body would decode as the payload, answered with
\* Other carrying the body text.
C11_Witness ==
    /\ Answered
    /\ Me.op = "create_voting"
    /\ Status = 201
    /\ TheBody = BodyVoting
    /\ Me.result = Other(BodyVoting.text)

\* The fields the payload of an operation must hold.
ExpectedFields(op) ==
    CASE op \in {"create_voting", "get_voting"} -> {"id", "choices"}
      [] op \in {"delete_voting", "unvote"}     -> {"code", "message"}
      [] op = "set_choice"                      -> {"choices"}
      [] op = "vote"                            -> {"revoted"}
      [] op = "get_ballot"                      -> {"ballot"}
      [] op = "get_voting_results"              -> {"tie", "results"}

HoldsPayload(body, op) ==
    body.readable /\ body.json.valid /\ ExpectedFields(op) \subseteq body.json.fields

\* C12: a 200 response whose body decodes as the expected payload yields Ok
\* with that payload; a 200 response whose body does not decode yields
\* ApiError::Client(HttpRequestError), not a variant of the taxonomy and not
\* Ok.
C12_OkDecodesOrFailsAsClientError ==
    (Answered /\ Status = 200) =>
        IF HoldsPayload(TheBody, Me.op)
        THEN /\ Me.result.kind = "Ok"
             /\ Me.op \notin {"delete_voting", "unvote"} =>
                  Me.result.payload.json = TheBody.json
        ELSE Me.result = HttpRequestError("decode")

\* C12 witness: a 200 whose body is a JSON object without the fields of a
\* voting.
C12_Witness ==
    /\ Answered
    /\ Me.op = "get_voting"
    /\ Status = 200
    /\ TheBody = BodyEmptyObject
    /\ Me.result.kind = "Client.HttpRequestError"


\* The caller's response headers have been parsed (or parsing them has
\* panicked).
Parsed ==
    /\ Me.sent = "ok"
    /\ Me.pc \in {"lock", "store", "unlock", "interpret", "done", "panicked"}

\* C13: Rate::from_headers returns a snapshot if and only if the four
\* headers are present and each parses as its numeric type (limit and
\* remaining as u32, the two deltas as u64), the largest representable
\* deltas included; otherwise it returns None.
C13_SnapshotIffHeadersParse ==
    Parsed =>
        IF Complete(Me.response.headers)
        THEN Me.pc # "panicked" /\ Me.rate_update.some
        ELSE Me.pc # "panicked" /\ Me.rate_update = NoRate

\* The number a header holds.
HeaderValue(h, n) == h[n][2]

\* C14: in a snapshot produced from headers, limit and remaining are the
\* header values, and reset and retry are one and the same capture time plus
\* the X-RateLimit-Reset delta and plus the Retry-After delta.
C14_SnapshotFields ==
    (Parsed /\ Me.rate_update.some) =>
        LET h == Me.response.headers
            r == Me.rate_update
        IN  /\ r.limit = HeaderValue(h, HEADER_RATE_LIMIT)
            /\ r.remaining = HeaderValue(h, HEADER_RATE_REMAINING)
            /\ \E at \in exchange.at..clock :
                 /\ at > 0
                 /\ r.reset = at + HeaderValue(h, HEADER_RATE_RESET)
                 /\ r.retry = at + HeaderValue(h, HEADER_RATE_RETRY)

\* C14 witness: equal deltas, parsed after the clock has advanced, give
\* reset = retry, later than the clock's first reading plus the delta.
C14_Witness ==
    /\ Parsed
    /\ Me.rate_update.some
    /\ HeaderValue(Me.response.headers, HEADER_RATE_RESET)
         = HeaderValue(Me.response.headers, HEADER_RATE_RETRY)
    /\ HeaderValue(Me.response.headers, HEADER_RATE_RESET) > 0
    /\ Me.rate_update.reset = Me.rate_update.retry
    /\ Me.rate_update.reset = clock + HeaderValue(Me.response.headers, HEADER_RATE_RESET)
    /\ clock > exchange.at


\* r is None or a snapshot whose four fields are those of one response.
FromOneResponse(r) ==
    \/ r = NoRate
    \/ \E resp \in ConcResponses, at \in 1..clock :
         /\ Complete(resp.headers)
         /\ r = SomeRate(HeaderValue(resp.headers, HEADER_RATE_LIMIT),
                         HeaderValue(resp.headers, HEADER_RATE_REMAINING),
                         at + HeaderValue(resp.headers, HEADER_RATE_RESET),
                         at + HeaderValue(resp.headers, HEADER_RATE_RETRY))

\* C15: under any interleaving of operations and get_rate() calls on one
\* client, a value returned by get_rate() is None or a snapshot whose four
\* fields come from one response, and a value that has been returned does
\* not change when later requests store their snapshots.
C15_GetRateReturnsWholeCopies ==
    /\ [](\A t \in Tasks : tasks[t].pc = "got" => FromOneResponse(tasks[t].got))
    /\ [][\A t \in Tasks :
            (tasks[t].pc = "got" /\ tasks'[t].pc = "got")
                => tasks'[t].got = tasks[t].got]_vars

\* C15 witness: a caller holds a snapshot returned by get_rate() while
\* another caller's request has since stored a different one.
C15_Witness ==
    \E t, u \in Tasks :
        /\ t # u
        /\ tasks[t].pc = "got"
        /\ tasks[t].got.some
        /\ tasks[u].pc \in {"unlock", "interpret", "done"}
        /\ tasks[u].sent = "ok"
        /\ rate.some
        /\ rate = tasks[u].rate_update
        /\ rate # tasks[t].got

\* C16: the caller that holds the rate-state lock is assigning the new
\* value or copying the stored one; a caller that is building or sending
\* its request, waiting for the response, parsing headers or interpreting
\* the response does not hold it, and a writer holds it only after its
\* transport call has completed.
C16_LockOnlyAroundMemoryAccess ==
    /\ lock \in Tasks \cup {0}
    /\ \A t \in Tasks :
         /\ lock = t => tasks[t].pc \in {"store", "unlock", "clone", "release"}
         /\ tasks[t].pc \in {"store", "unlock", "clone", "release"} => lock = t
         /\ tasks[t].pc \in {"store", "unlock"} => tasks[t].sent = "ok"

\* C16 witness: one caller holds the lock for its assignment while another
\* is waiting for its network response.
C16_Witness ==
    \E t, u \in Tasks :
        /\ t # u
        /\ lock = t
        /\ tasks[t].pc = "store"
        /\ tasks[u].pc = "send"

\* C17: under fair scheduling, with callers that may wait for their network
\* response for ever, every call whose transport call has completed returns
\* its result, and every get_rate() call returns.
C17_CompletedCallsReturn ==
    \A t \in Tasks :
        /\ (tasks[t].pc = "parse") ~> (tasks[t].pc = "done")
        /\ (tasks[t].pc = "acquire") ~> (tasks[t].pc = "got")


\* The caller's operation has built its request.
Requested == Me.pc # "idle" /\ Me.op \in Operations

\* The number of segments of a path.
SegmentCount(path) == 1 + Cardinality({ i \in DOMAIN path : path[i] = "/" })

\* The number of segments of each operation's path template:
\* v1/votings, v1/votings/{id}, v1/votings/{id}/choices (or results),
\* v1/votings/{id}/ballots/{voter}.
TemplateSegments(op) ==
    CASE op = "create_voting"                       -> 2
      [] op \in {"get_voting", "delete_voting"}    -> 3
      [] op \in {"set_choice", "get_voting_results"} -> 4
      [] op \in {"vote", "unvote", "get_ballot"}   -> 5

\* C18: for every voting id and voter id passed to an operation, the
\* characters that need percent-encoding, the slash included, are encoded in
\* the request path: the path has as many segments as the operation's
\* template, and no space, question mark or number sign is left in it.
C18_IdsStayInOneSegment ==
    Requested =>
        /\ SegmentCount(Me.request.path) = TemplateSegments(Me.op)
        /\ \A i \in DOMAIN Me.request.path : Me.request.path[i] \notin {" ", "?", "#"}

\* C19: the base URL of a built client ends with '/': one '/' is appended
\* to the configured or default URL when it lacks it and nothing when it
\* ends with '/' already, so that normalizing again changes nothing; every
\* request URL is the base URL followed by the operation's path, and the
\* path does not start with '/'.
C19_BaseUrlEndsWithSeparator ==
    LET given == IF builder.api_url.some THEN builder.api_url.url ELSE DEFAULT_BASE_URL
        base  == client.api_url
    IN  /\ base # << >>
        /\ base[Len(base)] = "/"
        /\ IF given # << >> /\ given[Len(given)] = "/"
           THEN base = given
           ELSE base = given \o <<"/">>
        /\ PushSlash(base) = base
        /\ Requested =>
             /\ Me.request.url = base \o Me.request.path
             /\ Me.request.path # << >>
             /\ Me.request.path[1] # "/"

\* C19 witness: a client built from a URL that ends with '/' already has
\* sent a request.
C19_Witness ==
    /\ builder.api_url.some
    /\ EndsWithSlash(builder.api_url.url)
    /\ client.api_url = builder.api_url.url
    /\ Requested
    /\ Me.pc = "done"

\* The operations that send a body.
BodyOperations == { "create_voting", "set_choice", "vote" }

\* C20: every request carries Authorization: Bearer <token>, the fixed
\* Accept header and the fixed User-Agent header; it carries Content-Type
\* and a JSON body if and only if the operation has a request body
\* (create_voting, set_choice, vote).
C20_RequestHeaders ==
    Requested =>
        LET h == Me.request.headers
        IN  /\ <<"Authorization", <<"Bearer ", builder.token>>>> \in h
            /\ <<"Accept", <<"application/json; charset=utf-8">>>> \in h
            /\ <<"User-Agent", <<"ddclient-rs/0.1.0">>>> \in h
            /\ \A x \in h, y \in h : x[1] = y[1] => x = y
            /\ IF Me.op \in BodyOperations
               THEN /\ <<"Content-Type", <<"application/json; charset=utf-8">>>> \in h
                    /\ Me.request.body.some
               ELSE /\ ~\E x \in h : x[1] = "Content-Type"
                    /\ ~Me.request.body.some

\* C20 witness: a request without a body (unvote) has been sent and
\* answered by a client whose token is not the default one.
C20_Witness ==
    /\ Requested
    /\ Me.op = "unvote"
    /\ Me.pc = "done"
    /\ builder.token # TestToken
    /\ ~Me.request.body.some


\* The caller's invocation of a public operation has ended.
Ended == Me.op \in Operations /\ Me.pc \in {"done", "panicked"}

\* C21: nothing is retried.  An invocation of a public operation that has
\* ended has made one transport call and at most one write to the rate
\* state (one when a response was obtained, none when the transport call
\* failed), whatever the status, and has returned a typed result.
C21_OneCallOneWriteTypedResult ==
    Ended =>
        /\ Me.sends = 1
        /\ Me.writes = IF Me.sent = "ok" THEN 1 ELSE 0
        /\ Me.pc = "done"
        /\ Me.result.kind \in ResultKinds


HasWritten(t) ==
    tasks[t].sent = "ok" /\ tasks[t].pc \in {"unlock", "interpret", "done"}

\* What the headers h give when they are parsed at some clock reading up to
\* now: None when a header is missing, the snapshot otherwise.
ParseResultOf(r, h) ==
    IF Complete(h)
    THEN \E at \in 1..clock :
           r = SomeRate(HeaderValue(h, HEADER_RATE_LIMIT),
                        HeaderValue(h, HEADER_RATE_REMAINING),
                        at + HeaderValue(h, HEADER_RATE_RESET),
                        at + HeaderValue(h, HEADER_RATE_RETRY))
    ELSE r = NoRate

\* C23: with several operations running on one client, the rate state is
\* the parse result of the response of the invocation that wrote last,
\* whatever the other invocations stored before and whenever they began;
\* once all have completed, the state is the parse result of one of the
\* completed responses.
C23_LastWriterWins ==
    /\ \A t \in Tasks :
         (exchange.writer = t /\ HasWritten(t))
             => /\ rate = tasks[t].rate_update
                /\ ParseResultOf(rate, tasks[t].response.headers)
    /\ (\A t \in Tasks : tasks[t].pc = "done" /\ tasks[t].sent = "ok")
         => \E t \in Tasks : /\ exchange.writer = t
                             /\ ParseResultOf(rate, tasks[t].response.headers)

\* C23 witness: all callers have completed; the one that wrote last had a
\* response without rate headers and erased the snapshot that another
\* caller, whose response arrived later, had stored.
C23_Witness ==
    \E t, u \in Tasks :
        /\ t # u
        /\ \A v \in Tasks : tasks[v].pc = "done" /\ tasks[v].sent = "ok"
        /\ exchange.writer = t
        /\ tasks[t].response.headers = NoHeaders
        /\ tasks[u].rate_update.some
        /\ exchange.headers = tasks[u].response.headers
        /\ rate = NoRate


\* C24: get_rate() does not modify the rate state, and neither does the
\* passing of time; a get_rate() call returns what the previous get_rate()
\* call returned when no exchange has completed between the two, so the
\* reset and retry of a stored snapshot are the points in time fixed at
\* capture, whenever they are read.
C24_GetRateOnlyReads ==
    /\ [][(tasks[Caller].op = "get_rate" \/ tasks'[Caller].op = "get_rate")
            => rate' = rate]_vars
    /\ [][clock' # clock => rate' = rate]_vars
    /\ [][(tasks[Caller].pc = "clone" /\ tasks'[Caller].pc = "release"
             /\ exchange.read.valid)
            => tasks'[Caller].got = exchange.read.value]_vars

\* C24 witness: a second get_rate() call, made later than the first with no
\* exchange in between, has copied the same snapshot.
C24_Witness ==
    /\ Me.pc = "release"
    /\ exchange.read.valid
    /\ exchange.read.value.some
    /\ clock > exchange.read.at
    /\ Me.got = exchange.read.value
    /\ rate = Me.got


\* The body is JSON with a code and a message.
IsOkResponse(body) ==
    body.readable /\ body.json.valid /\ {"code", "message"} \subseteq body.json.fields

\* C25: delete_voting and unvote return Ok(()) if and only if the status is
\* 200 and the body decodes as {code, message}; on a 200 response with an
\* empty or differently shaped body they return
\* ApiError::Client(HttpRequestError), and the rate state has been updated
\* from that response all the same.
C25_UnitOperationsNeedOkBody ==
    (Answered /\ Me.op \in {"delete_voting", "unvote"}) =>
        /\ Me.result = Ok("()", NotJson) <=> (Status = 200 /\ IsOkResponse(TheBody))
        /\ (Status = 200 /\ ~IsOkResponse(TheBody)) =>
             /\ Me.result = HttpRequestError("decode")
             /\ exchange.writer = Caller
             /\ ParseResultOf(rate, Me.response.headers)

\* C25 witness: delete_voting answered 200 with an empty body and full rate
\* headers returns the decode error, and the snapshot is stored.
C25_Witness ==
    /\ Answered
    /\ Me.op = "delete_voting"
    /\ Status = 200
    /\ TheBody = BodyEmpty
    /\ Me.response.headers = FullHeaders
    /\ Me.result.kind = "Client.HttpRequestError"
    /\ rate.some

=============================================================================
